---- MODULE Spec2Model ----
(***************************************************************************)
(* The transcription front end of src/main.py: POST /transcribe,           *)
(* GET /transcriptions and GET /download/<path>, run by concurrent request *)
(* handlers against one storage bucket and one worker VM.                  *)
(*                                                                         *)
(* Text is a sequence of one-character strings, so that rsplit, endswith,  *)
(* re.sub, slicing and string order are computed on the characters.        *)
(***************************************************************************)
EXTENDS Integers, Sequences, FiniteSets, TLC

\* ------------------------------------------------------------ bounds
\* Number of request handlers that may run concurrently (one request each).
NumReqs == 2

\* ------------------------------------------------------------ text helpers
None == <<"None">>

\* The characters the model uses, in ASCII order (Python compares str by code point).
Ascii == << " ", "-", ".", "/", "0", "1", "2", "3", "4", "5", "6", "7", "8", "9",
            ":", "?", "A", "E", "M", "P", "V", "W", "X", "_",
            "a", "b", "c", "d", "e", "f", "g", "h", "i", "l", "m", "o", "p", "r",
            "s", "t", "v", "w", "x", "z" >>

Code(c) == CHOOSE i \in 1..Len(Ascii) : Ascii[i] = c

Upper == <<"A", "E", "M", "P", "V", "W", "X">>
Lower == <<"a", "e", "m", "p", "v", "w", "x">>

\* str.lower(), character by character
LowerChar(c) == IF \E i \in 1..Len(Upper) : Upper[i] = c
                THEN Lower[CHOOSE i \in 1..Len(Upper) : Upper[i] = c]
                ELSE c

lower(s) == [i \in 1..Len(s) |-> LowerChar(s[i])]

\* s[i:] and s[:n] of Python (0-based i, n >= 0)
From(s, i) == SubSeq(s, i + 1, Len(s))
Upto(s, n) == SubSeq(s, 1, IF n < Len(s) THEN n ELSE Len(s))

startswith(s, p) == Len(p) <= Len(s) /\ SubSeq(s, 1, Len(p)) = p
endswith(s, p) == Len(p) <= Len(s) /\ SubSeq(s, Len(s) - Len(p) + 1, Len(s)) = p

Contains(s, c) == \E i \in 1..Len(s) : s[i] = c
LastIndex(s, c) == CHOOSE i \in 1..Len(s) : s[i] = c /\ \A j \in (i+1)..Len(s) : s[j] # c

\* s.rsplit(c, 1): the one- or two-element list Python returns
rsplit1(s, c) == IF Contains(s, c)
                 THEN << SubSeq(s, 1, LastIndex(s, c) - 1),
                         SubSeq(s, LastIndex(s, c) + 1, Len(s)) >>
                 ELSE << s >>

\* str order of Python: lexicographic by code point, a proper prefix is smaller
RECURSIVE StrLess(_, _)
StrLess(a, b) == IF b = <<>> THEN FALSE
                 ELSE IF a = <<>> THEN TRUE
                 ELSE IF a[1] # b[1] THEN Code(a[1]) < Code(b[1])
                 ELSE StrLess(Tail(a), Tail(b))

\* ------------------------------------------------------------ configuration
GCS_BUCKET_NAME == << "s", "h", "a", "w", "-", "t", "r", "a", "n", "s", "c", "r", "i", "p", "t", "s",
                      "-", "2", "0", "2", "6", "0", "2", "0", "7" >>
HUGGING_FACE_TOKEN == << "h", "f" >>

ALLOWED_EXTENSIONS == { <<"m", "p", "4">>, <<"m", "p", "3">>, <<"w", "a", "v">>,
                        <<"f", "l", "a", "c">>, <<"a", "a", "c">>, <<"o", "g", "g">>,
                        <<"w", "e", "b", "m">>, <<"m", "4", "a">> }

\* a variant of allowed_file that asks only for a dot in the name
allowed_file_AnyExtension(filename) == Contains(filename, ".")

allowed_file(filename) ==
    /\ Contains(filename, ".")
    /\ lower(rsplit1(filename, ".")[2]) \in ALLOWED_EXTENSIONS

\* ------------------------------------------------------------ name derivation
Digits == {"0", "1", "2", "3", "4", "5", "6", "7", "8", "9"}
Letters == {"A", "E", "M", "P", "V", "W", "X",
            "a", "b", "c", "d", "e", "f", "g", "h", "i", "l", "m", "o", "p", "r",
            "s", "t", "v", "w", "x", "z"}
\* the character class [a-zA-Z0-9_.-]
IsNameChar(c) == c \in Letters \cup Digits \cup {"_", ".", "-"}

\* filename.replace("/", " ")
ReplaceSep(s) == [i \in 1..Len(s) |-> IF s[i] = "/" THEN " " ELSE s[i]]

\* "_".join(s.split()): runs of blanks become one "_", blanks at the ends vanish
RECURSIVE JoinWords(_, _, _)
JoinWords(s, started, gap) ==
    IF s = <<>> THEN <<>>
    ELSE IF s[1] = " " THEN JoinWords(Tail(s), started, TRUE)
    ELSE (IF started /\ gap THEN <<"_">> ELSE <<>>) \o <<s[1]>> \o JoinWords(Tail(s), TRUE, FALSE)

\* re.sub(r'[^A-Za-z0-9_.-]', '', s)
RECURSIVE DropNonName(_)
DropNonName(s) == IF s = <<>> THEN <<>>
                  ELSE IF IsNameChar(s[1]) THEN <<s[1]>> \o DropNonName(Tail(s))
                  ELSE DropNonName(Tail(s))

\* s.strip("._")
RECURSIVE LStrip(_)
LStrip(s) == IF s # <<>> /\ s[1] \in {".", "_"} THEN LStrip(Tail(s)) ELSE s
RECURSIVE RStrip(_)
RStrip(s) == IF s # <<>> /\ s[Len(s)] \in {".", "_"} THEN RStrip(SubSeq(s, 1, Len(s) - 1)) ELSE s

\* werkzeug.utils.secure_filename on ASCII input, os.sep = "/"
secure_filename(filename) == RStrip(LStrip(DropNonName(JoinWords(ReplaceSep(filename), FALSE, FALSE))))

\* re.sub(r'https?://', '', url)
RECURSIVE StripScheme(_)
StripScheme(s) ==
    IF s = <<>> THEN <<>>
    ELSE IF startswith(s, <<"h", "t", "t", "p", "s", ":", "/", "/">>) THEN StripScheme(From(s, 8))
    ELSE IF startswith(s, <<"h", "t", "t", "p", ":", "/", "/">>) THEN StripScheme(From(s, 7))
    ELSE <<s[1]>> \o StripScheme(Tail(s))

\* re.sub(r'[^a-zA-Z0-9_.-]', '_', s)
Underscore(s) == [i \in 1..Len(s) |-> IF IsNameChar(s[i]) THEN s[i] ELSE "_"]

BaseNameLimit == 50

\* source_base_name of a request (file takes precedence over url)
source_base_name(url, file) ==
    IF file # <<>> THEN rsplit1(secure_filename(file), ".")[1]
    ELSE IF url # <<>> THEN Upto(Underscore(StripScheme(url)), BaseNameLimit)
    ELSE <<"u", "n", "t", "i", "t", "l", "e", "d">>

Digit(n) == <<"0", "1", "2", "3", "4", "5", "6", "7", "8", "9">>[n + 1]

\* datetime.now().strftime("%Y%m%d-%H%M%S") at second t of 2026-02-07 00:00
Timestamp(t) == << "2", "0", "2", "6", "0", "2", "0", "7", "-", "0", "0", "0", "0",
                   Digit((t \div 10) % 10), Digit(t % 10) >>

\* a variant of TranscriptionId that leaves the timestamp out
TranscriptionId_NoTimestamp(base, timestamp) == base \o <<"_">>

TranscriptionId(base, timestamp) == base \o <<"_">> \o timestamp

GcsFilePath(transcription_id, file) == transcription_id \o <<"/">> \o secure_filename(file)

\* a variant of GcsUri that leaves the bucket name out
GcsUri_NoBucket(gcs_file_path) == <<"g", "s", ":", "/", "/">> \o gcs_file_path

GcsUri(gcs_file_path) == <<"g", "s", ":", "/", "/">> \o GCS_BUCKET_NAME \o <<"/">> \o gcs_file_path

\* ------------------------------------------------------------ storage listing
\* the smallest name of a non-empty set, in str order
MinName(S) == CHOOSE x \in S : \A y \in S \ {x} : StrLess(x, y)

\* the names of a set in the order the storage API lists them (ascending by name)
RECURSIVE ListingOrder(_)
ListingOrder(S) == IF S = {} THEN <<>>
                   ELSE <<MinName(S)>> \o ListingOrder(S \ {MinName(S)})

FirstIndex(s, c) == CHOOSE i \in 1..Len(s) : s[i] = c /\ \A j \in 1..(i-1) : s[j] # c

\* list_blobs(bucket, delimiter='/'): the first-level prefixes, each ending in "/"
Prefixes(b) == ListingOrder({ SubSeq(n, 1, FirstIndex(n, "/")) : n \in {m \in DOMAIN b : Contains(m, "/")} })

\* list_blobs(bucket, prefix=prefix): the names under the prefix, in listing order
ListBlobs(b, prefix) == ListingOrder({ n \in DOMAIN b : startswith(n, prefix) })

TxtSuffix == <<".", "t", "x", "t">>

\* next((blob for blob in blobs if blob.name.endswith('.txt')), None)
RECURSIVE FirstTxt(_)
FirstTxt(blobs) == IF blobs = <<>> THEN None
                   ELSE IF endswith(blobs[1], TxtSuffix) THEN blobs[1]
                   ELSE FirstTxt(Tail(blobs))

\* url_for('download_file', path=name): the route of the download endpoint
url_for(name) == <<"/", "d", "o", "w", "n", "l", "o", "a", "d", "/">> \o name

\* the loop over the prefixes: one entry per folder that has a text file
RECURSIVE Collect(_, _)
Collect(b, prefixes) ==
    IF prefixes = <<>> THEN <<>>
    ELSE LET prefix == prefixes[1]
             folder_name == SubSeq(prefix, 1, Len(prefix) - 1)
             txt_file_blob == FirstTxt(ListBlobs(b, prefix))
         IN  (IF txt_file_blob # None
              THEN << [name |-> folder_name, download_url |-> url_for(txt_file_blob)] >>
              ELSE <<>>) \o Collect(b, Tail(prefixes))

\* the place of e in a list sorted descending by name (stable: after its equals)
RECURSIVE InsertDesc(_, _)
InsertDesc(e, sorted) ==
    IF sorted = <<>> THEN <<e>>
    ELSE IF StrLess(sorted[1].name, e.name) THEN <<e>> \o sorted
    ELSE <<sorted[1]>> \o InsertDesc(e, Tail(sorted))

\* a variant of SortDesc that leaves the list in the order it was collected
SortDesc_Unsorted(data) == data

\* transcriptions_data.sort(key=lambda x: x['name'], reverse=True)
RECURSIVE SortDesc(_)
SortDesc(data) == IF data = <<>> THEN <<>>
                  ELSE InsertDesc(data[Len(data)], SortDesc(SubSeq(data, 1, Len(data) - 1)))

\* the JSON array GET /transcriptions answers with
Transcriptions(b) == SortDesc(Collect(b, Prefixes(b)))

\* ------------------------------------------------------------ inputs
Reqs == 1..NumReqs

NoUrl == <<>>     \* request.form.get('url') is None or '' (both falsy)
NoFile == <<>>    \* request.files.get('file') is None or has an empty filename (falsy)

Urls == { <<"h", "t", "t", "p", ":", "/", "/", "a", "?">> }

Files == { <<".", ".", "/", "a", ".", "M", "P", "3">>,
           <<"a", ".", "e", "x", "e">>,
           <<"a">> }

\* the seconds of 2026-02-07 00:00 at which datetime.now() is read
Seconds == {0, 1}

\* objects other writers (the worker VM) left in the bucket before the run
ResultA == <<"a", "/", "r", ".", "t", "x", "t">>
ResultB == <<"a", "/", "s", ".", "t", "x", "t">>
MediaB  == <<"b", "/", "x", ".", "m", "p", "3">>
Nested  == <<"c", "/", "d", "/", "t", ".", "t", "x", "t">>
RootTxt == <<"t", ".", "t", "x", "t">>
NoDot   == <<"a", "-", "/", "t", "x", "t">>
Hidden  == <<"a", "-", "/", ".", "t", "x", "t">>

StoredObjects == { ResultA, ResultB, MediaB, Nested, RootTxt, NoDot, Hidden }

\* the bytes of an object the worker wrote
WorkerBytes(n) == 10 + Len(n)

InitialBucket == [n \in { ResultA, ResultB, MediaB } |-> WorkerBytes(n)]

UploadedPath == GcsFilePath(TranscriptionId(<<"a">>, Timestamp(0)), <<".", ".", "/", "a", ".", "M", "P", "3">>)

\* a stored result, and the path of an upload (absent until a request uploads there)
DownloadPaths == { ResultA, UploadedPath }

\* str(e) of the exception each remote call raises when it fails
ExcText == [ upload |-> "upload failed", get |-> "get failed",
             setMetadata |-> "setMetadata failed", start |-> "start failed",
             list |-> "list failed", exists |-> "exists failed",
             download |-> "download failed" ]

MetadataKeys == { "gcs-input-path", "gcs-output-bucket", "huggingface-token", "transcription-id" }

\* ------------------------------------------------------------ state
VARIABLES
    bucket,       \* the bucket: object name -> content
    metadata,     \* the worker VM's metadata: [fingerprint, items]
    pc,           \* where each handler stands
    local,        \* each handler's local variables
    calls,        \* the remote calls each handler issued, in order
    resp,         \* each handler's response
    startedWith   \* the metadata items the VM held when a handler's start reached it
                  \* (NoItems until then)

vars == << bucket, metadata, pc, local, calls, resp, startedWith >>

NoLocal == [ op |-> "none", url |-> <<>>, file |-> <<>>, timestamp |-> <<>>,
             source_base_name |-> <<>>, transcription_id |-> <<>>, gcs_file_path |-> <<>>, input_source_for_vm |-> <<>>,
             metadata_fingerprint |-> -1, path |-> <<>>, stored |-> -1 ]

NoResp == [ status |-> 0, text |-> "", detail |-> "" ]

NoItems == [k \in MetadataKeys |-> <<>>]

Init ==
    /\ bucket = InitialBucket
    /\ metadata = [fingerprint |-> 0, items |-> NoItems]
    /\ pc = [r \in Reqs |-> "idle"]
    /\ local = [r \in Reqs |-> NoLocal]
    /\ calls = [r \in Reqs |-> <<>>]
    /\ resp = [r \in Reqs |-> NoResp]
    /\ startedWith = [r \in Reqs |-> NoItems]

\* the call record a handler appends when it issues a remote call
Call(op, ok, arg) == [op |-> op, ok |-> ok, arg |-> arg]

Issue(r, op, ok, arg) == calls' = [calls EXCEPT ![r] = Append(@, Call(op, ok, arg))]

Answer(r, status, text, detail) ==
    /\ resp' = [resp EXCEPT ![r] = [status |-> status, text |-> text, detail |-> detail]]
    /\ pc' = [pc EXCEPT ![r] = "done"]

\* ------------------------------------------------------------ POST /transcribe
\* metadata_body['items'] as a key -> value map
MetadataItems(input_source_for_vm, transcription_id) ==
    [k \in MetadataKeys |->
        CASE k = "gcs-input-path" -> input_source_for_vm
          [] k = "gcs-output-bucket" -> GCS_BUCKET_NAME
          [] k = "huggingface-token" -> HUGGING_FACE_TOKEN
          [] k = "transcription-id" -> transcription_id]

\* lines 228-252, 262-264: validation and the derivation of the job's names
\* a variant of HasInput without the check
HasInput_Unchecked(url, file) == TRUE

\* line 231: "if not url and not file" rejects the request
HasInput(url, file) == url # NoUrl \/ file # NoFile

\* now is the second datetime.now() returns: the wall clock, which may repeat a
\* second for two requests and is not monotonic
Transcribe(r, url, file, now) ==
    /\ pc[r] = "idle"
    /\ LET timestamp == Timestamp(now)
           base == source_base_name(url, file)
           transcription_id == TranscriptionId(base, timestamp)
       IN  IF ~HasInput(url, file)
           THEN /\ Answer(r, 400, "No URL or file provided", "")
                /\ local' = [local EXCEPT ![r] = [NoLocal EXCEPT !.op = "transcribe",
                                                           !.url = url, !.file = file]]
           ELSE IF file # NoFile /\ ~allowed_file(file)
           THEN /\ Answer(r, 400, "Invalid file type", "")
                /\ local' = [local EXCEPT ![r] = [NoLocal EXCEPT !.op = "transcribe",
                                                           !.url = url, !.file = file,
                                                           !.timestamp = timestamp,
                                                           !.source_base_name = base,
                                                           !.transcription_id = transcription_id]]
           ELSE /\ local' = [local EXCEPT ![r] =
                       [NoLocal EXCEPT !.op = "transcribe", !.url = url, !.file = file,
                                       !.timestamp = timestamp,
                                       !.source_base_name = base,
                                       !.transcription_id = transcription_id,
                                       !.gcs_file_path = IF file # NoFile
                                                         THEN GcsFilePath(transcription_id, file)
                                                         ELSE <<>>,
                                       !.input_source_for_vm = IF file # NoFile THEN <<>> ELSE url]]
                /\ pc' = [pc EXCEPT ![r] = IF file # NoFile THEN "upload" ELSE "get"]
                /\ UNCHANGED resp
    /\ UNCHANGED << bucket, metadata, calls, startedWith >>

\* the bytes of the file handler r was sent
FileBytes(r) == r

\* lines 254-261: blob.upload_from_file returns
Upload(r) ==
    /\ pc[r] = "upload"
    /\ bucket' = [n \in DOMAIN bucket \cup {local[r].gcs_file_path} |->
                    IF n = local[r].gcs_file_path THEN FileBytes(r) ELSE bucket[n]]
    /\ Issue(r, "upload", TRUE, local[r].gcs_file_path)
    /\ local' = [local EXCEPT ![r].input_source_for_vm = GcsUri(local[r].gcs_file_path)]
    /\ pc' = [pc EXCEPT ![r] = "get"]
    /\ UNCHANGED << metadata, resp, startedWith >>

\* line 259 raises: the call is outside the try block, so the exception leaves the
\* view function and Flask answers with its own 500 page
UploadFails(r) ==
    /\ pc[r] = "upload"
    /\ Issue(r, "upload", FALSE, local[r].gcs_file_path)
    /\ Answer(r, 500, "Internal Server Error", "")
    /\ UNCHANGED << bucket, metadata, local, startedWith >>

\* lines 297-299: the except clause of the compute calls
ComputeError(r, e) == Answer(r, 500, "Failed to initiate transcription: ", e)

\* lines 276-277: instances.get returns the instance with its metadata fingerprint
Get(r) ==
    /\ pc[r] = "get"
    /\ Issue(r, "get", TRUE, metadata.fingerprint)
    /\ local' = [local EXCEPT ![r].metadata_fingerprint = metadata.fingerprint]
    /\ pc' = [pc EXCEPT ![r] = "setMetadata"]
    /\ UNCHANGED << bucket, metadata, resp, startedWith >>

\* a variant of SetMetadataBody that sends the fingerprint of a fresh instance, not
\* the one the request read
SetMetadataBody_FirstFingerprint(r) ==
    [fingerprint |-> 0,
     items |-> MetadataItems(local[r].input_source_for_vm, local[r].transcription_id)]

\* the body of the setMetadata request
SetMetadataBody(r) ==
    [fingerprint |-> local[r].metadata_fingerprint,
     items |-> MetadataItems(local[r].input_source_for_vm, local[r].transcription_id)]

\* a variant of SetMetadata that adds the job's input path to the items the VM has,
\* leaving the other keys as they are
SetMetadata_Merge(r) ==
    /\ pc[r] = "setMetadata"
    /\ IF local[r].metadata_fingerprint = metadata.fingerprint
       THEN /\ metadata' = [fingerprint |-> metadata.fingerprint + 1,
                            items |-> [metadata.items EXCEPT !["gcs-input-path"] =
                                          SetMetadataBody(r).items["gcs-input-path"]]]
            /\ Issue(r, "setMetadata", TRUE, SetMetadataBody(r))
            /\ pc' = [pc EXCEPT ![r] = "start"]
            /\ UNCHANGED resp
       ELSE /\ Issue(r, "setMetadata", FALSE, SetMetadataBody(r))
            /\ ComputeError(r, ExcText.setMetadata)
            /\ UNCHANGED metadata
    /\ UNCHANGED << bucket, local, startedWith >>

\* lines 280-285: setMetadata; the API refuses a stale fingerprint, and a
\* successful update replaces the items and changes the fingerprint
SetMetadata(r) ==
    /\ pc[r] = "setMetadata"
    /\ IF local[r].metadata_fingerprint = metadata.fingerprint
       THEN /\ metadata' = [fingerprint |-> metadata.fingerprint + 1,
                            items |-> SetMetadataBody(r).items]
            /\ Issue(r, "setMetadata", TRUE, SetMetadataBody(r))
            /\ pc' = [pc EXCEPT ![r] = "start"]
            /\ UNCHANGED resp
       ELSE /\ Issue(r, "setMetadata", FALSE, SetMetadataBody(r))
            /\ ComputeError(r, ExcText.setMetadata)
            /\ UNCHANGED metadata
    /\ UNCHANGED << bucket, local, startedWith >>

\* lines 288-295: start is accepted; the VM boots with the metadata it holds now
Start(r) ==
    /\ pc[r] = "start"
    /\ Issue(r, "start", TRUE, <<>>)
    /\ startedWith' = [startedWith EXCEPT ![r] = metadata.items]
    /\ Answer(r, 200, "Transcription job initiated. The VM is spinning up.",
              local[r].transcription_id)
    /\ UNCHANGED << bucket, metadata, local >>

\* a variant of ComputeFails that deletes the uploaded object before it answers
ComputeFails_Rollback(r) ==
    /\ pc[r] \in {"get", "setMetadata", "start"}
    /\ Issue(r, pc[r], FALSE, IF pc[r] = "setMetadata" THEN SetMetadataBody(r) ELSE <<>>)
    /\ ComputeError(r, ExcText[pc[r]])
    /\ bucket' = [n \in DOMAIN bucket \ {local[r].gcs_file_path} |-> bucket[n]]
    /\ UNCHANGED << metadata, local, startedWith >>

\* instances.get, setMetadata or start raises (network, quota, permission)
ComputeFails(r) ==
    /\ pc[r] \in {"get", "setMetadata", "start"}
    /\ Issue(r, pc[r], FALSE, IF pc[r] = "setMetadata" THEN SetMetadataBody(r) ELSE <<>>)
    /\ ComputeError(r, ExcText[pc[r]])
    /\ UNCHANGED << bucket, metadata, local, startedWith >>

\* ------------------------------------------------------------ GET /transcriptions
\* lines 306-324: every listing call returns
ListTranscriptions(r) ==
    /\ pc[r] = "idle"
    /\ local' = [local EXCEPT ![r] = [NoLocal EXCEPT !.op = "list"]]
    /\ Issue(r, "list", TRUE, <<>>)
    /\ Answer(r, 200, "", Transcriptions(bucket))
    /\ UNCHANGED << bucket, metadata, startedWith >>

\* lines 325-327: a listing call raises
ListFails(r) ==
    /\ pc[r] = "idle"
    /\ local' = [local EXCEPT ![r] = [NoLocal EXCEPT !.op = "list"]]
    /\ Issue(r, "list", FALSE, <<>>)
    /\ Answer(r, 500, "error", ExcText.list)
    /\ UNCHANGED << bucket, metadata, startedWith >>

\* ------------------------------------------------------------ GET /download/<path>
\* the content stored at a path, -1 when there is no such object
Stored(b, path) == IF path \in DOMAIN b THEN b[path] ELSE -1

\* a variant of DownloadExists that goes on to the fetch whatever exists() returned
DownloadExists_NoCheck(r, path) ==
    /\ pc[r] = "idle"
    /\ local' = [local EXCEPT ![r] = [NoLocal EXCEPT !.op = "download", !.path = path,
                                                     !.stored = Stored(bucket, path)]]
    /\ Issue(r, "exists", TRUE, path)
    /\ pc' = [pc EXCEPT ![r] = "fetch"]
    /\ UNCHANGED << bucket, metadata, resp, startedWith >>

\* lines 334-340: blob.exists() returns
DownloadExists(r, path) ==
    /\ pc[r] = "idle"
    /\ local' = [local EXCEPT ![r] = [NoLocal EXCEPT !.op = "download", !.path = path,
                                                     !.stored = Stored(bucket, path)]]
    /\ Issue(r, "exists", TRUE, path)
    /\ IF path \in DOMAIN bucket
       THEN pc' = [pc EXCEPT ![r] = "fetch"] /\ UNCHANGED resp
       ELSE Answer(r, 404, "File not found", "")
    /\ UNCHANGED << bucket, metadata, startedWith >>

\* lines 348-350: the except clause of the download endpoint
DownloadError(r, e) == Answer(r, 500, "Failed to serve file: ", e)

\* blob.exists() raises
DownloadExistsFails(r, path) ==
    /\ pc[r] = "idle"
    /\ local' = [local EXCEPT ![r] = [NoLocal EXCEPT !.op = "download", !.path = path,
                                                     !.stored = Stored(bucket, path)]]
    /\ Issue(r, "exists", FALSE, path)
    /\ DownloadError(r, ExcText.exists)
    /\ UNCHANGED << bucket, metadata, startedWith >>

\* lines 342-347: blob.download_as_bytes() returns the object's bytes
DownloadFetch(r) ==
    /\ pc[r] = "fetch"
    /\ local[r].path \in DOMAIN bucket
    /\ Issue(r, "download", TRUE, local[r].path)
    /\ Answer(r, 200, "", bucket[local[r].path])
    /\ UNCHANGED << bucket, metadata, local, startedWith >>

\* blob.download_as_bytes() raises
DownloadFetchFails(r) ==
    /\ pc[r] = "fetch"
    /\ Issue(r, "download", FALSE, local[r].path)
    /\ DownloadError(r, ExcText.download)
    /\ UNCHANGED << bucket, metadata, local, startedWith >>

\* ------------------------------------------------------------ specifications
Next ==
    \E r \in Reqs :
        \/ \E url \in Urls \cup {NoUrl}, file \in Files \cup {NoFile}, now \in Seconds :
              Transcribe(r, url, file, now)
        \/ Upload(r)
        \/ UploadFails(r)
        \/ Get(r)
        \/ SetMetadata(r)
        \/ Start(r)
        \/ ComputeFails(r)
        \/ ListTranscriptions(r)
        \/ ListFails(r)
        \/ \E path \in DownloadPaths : DownloadExists(r, path) \/ DownloadExistsFails(r, path)
        \/ DownloadFetch(r)
        \/ DownloadFetchFails(r)

Spec == Init /\ [][Next]_vars

\* The listing and download endpoints over every bucket made of the stored objects.
InitStore ==
    /\ bucket \in { [n \in S |-> WorkerBytes(n)] : S \in SUBSET StoredObjects }
    /\ metadata = [fingerprint |-> 0, items |-> NoItems]
    /\ pc = [r \in Reqs |-> "idle"]
    /\ local = [r \in Reqs |-> NoLocal]
    /\ calls = [r \in Reqs |-> <<>>]
    /\ resp = [r \in Reqs |-> NoResp]
    /\ startedWith = [r \in Reqs |-> NoItems]

NextStore ==
    \E r \in Reqs :
        \/ ListTranscriptions(r)
        \/ ListFails(r)
        \/ \E path \in DownloadPaths : DownloadExists(r, path) \/ DownloadExistsFails(r, path)
        \/ DownloadFetch(r)
        \/ DownloadFetchFails(r)

SpecStore == InitStore /\ [][NextStore]_vars

\* ------------------------------------------------------------ properties
\* the calls of handler r with the given name
CallsOf(r, op) == { i \in 1..Len(calls[r]) : calls[r][i].op = op }
TheCall(r, op) == calls[r][CHOOSE i \in CallsOf(r, op) : TRUE]

ComputeOps == {"get", "setMetadata", "start"}
StorageOps == {"upload", "list", "exists", "download"}

\* handler r takes its first step in this transition, as POST /transcribe
Arrives(r) == pc[r] = "idle" /\ pc'[r] # "idle" /\ local'[r].op = "transcribe"

\* the step leaves the bucket, the VM metadata and the VM alone and issues no call
NoEffect(r) ==
    /\ calls'[r] = <<>>
    /\ bucket' = bucket
    /\ metadata' = metadata
    /\ startedWith' = startedWith

\* C1: a POST /transcribe with neither a non-empty url nor a file is answered 400 at
\* once; the request issues no upload and no compute call, and the bucket and the VM
\* metadata are after it what they were before it.
C1_NoInputRejected ==
    [][\A r \in Reqs :
        (Arrives(r) /\ local'[r].url = NoUrl /\ local'[r].file = NoFile)
        => (pc'[r] = "done" /\ resp'[r].status = 400 /\ NoEffect(r))]_vars

C1_Witness ==
    \E r \in Reqs : /\ local[r].op = "transcribe"
                    /\ local[r].url = NoUrl /\ local[r].file = NoFile
                    /\ pc[r] = "done" /\ resp[r].status = 400 /\ calls[r] = <<>>

\* the files of the input set whose extension is outside the allow-list ("a.exe") or
\* that have no extension at all ("a")
DisallowedFiles == { <<"a", ".", "e", "x", "e">>, <<"a">> }

\* C2: a POST /transcribe whose file has a disallowed extension, or none, is answered
\* 400 and issues no upload and no compute call, with or without a url beside the file.
C2_DisallowedFileRejected ==
    [][\A r \in Reqs :
        (Arrives(r) /\ local'[r].file \in DisallowedFiles)
        => (pc'[r] = "done" /\ resp'[r].status = 400 /\ NoEffect(r))]_vars

C2_Witness ==
    /\ \E r \in Reqs : /\ local[r].file = <<"a", ".", "e", "x", "e">> /\ local[r].url # NoUrl
                       /\ pc[r] = "done" /\ resp[r].status = 400 /\ calls[r] = <<>>
    /\ \E r \in Reqs : /\ local[r].file = <<"a">> /\ local[r].url = NoUrl
                       /\ pc[r] = "done" /\ resp[r].status = 400 /\ calls[r] = <<>>

\* gs://<bucket>/<path>
UriOf(path) == <<"g", "s", ":", "/", "/">> \o GCS_BUCKET_NAME \o <<"/">> \o path

Succeeded(r) == local[r].op = "transcribe" /\ pc[r] = "done" /\ resp[r].status = 200

\* C3: a POST /transcribe answered 200 issued exactly one setMetadata and exactly one
\* start; the gcs-input-path it wrote is gs://<bucket>/<job-id>/<sanitized-filename>
\* of the object it uploaded when a file was given (with or without a url), the raw
\* url when only a url was given; the transcription-id it wrote is the job
\* identifier the response names.
C3_SuccessfulSubmission ==
    \A r \in Reqs : Succeeded(r) =>
        /\ Cardinality(CallsOf(r, "setMetadata")) = 1
        /\ Cardinality(CallsOf(r, "start")) = 1
        /\ LET items == TheCall(r, "setMetadata").arg.items
               job == resp[r].detail
           IN  /\ items["transcription-id"] = job
               /\ IF local[r].file # NoFile
                  THEN /\ Cardinality(CallsOf(r, "upload")) = 1
                       /\ TheCall(r, "upload").arg = job \o <<"/">> \o secure_filename(local[r].file)
                       /\ items["gcs-input-path"] = UriOf(TheCall(r, "upload").arg)
                  ELSE /\ CallsOf(r, "upload") = {}
                       /\ items["gcs-input-path"] = local[r].url

C3_Witness ==
    /\ \E r \in Reqs : Succeeded(r) /\ local[r].file # NoFile /\ local[r].url # NoUrl
    /\ \E r \in Reqs : Succeeded(r) /\ local[r].file = NoFile

\* handler r is done and the last call it issued raised
Raised(r) == pc[r] = "done" /\ calls[r] # <<>> /\ ~calls[r][Len(calls[r])].ok
LastCall(r) == calls[r][Len(calls[r])]

\* C4: in every endpoint, an exception raised by a storage call or by a compute call
\* is answered with a 500 whose body carries the exception's text; the upload of a
\* submission's step 1 included.
C4_EveryFailureReported ==
    \A r \in Reqs : Raised(r) =>
        /\ resp[r].status = 500
        /\ resp[r].detail = ExcText[LastCall(r).op]

\* the calls a submission makes, in the order of the code
ExpectedCalls(r) ==
    (IF local[r].file # NoFile THEN <<"upload">> ELSE <<>>) \o <<"get", "setMetadata", "start">>

\* C8: within an accepted submission the calls are issued in the order upload (when
\* a file was given), instances.get, setMetadata, start; a call is issued only when
\* every earlier call of the request returned without exception; setMetadata carries
\* the fingerprint the request's own get returned.
C8_CallOrder ==
    \A r \in Reqs : local[r].op = "transcribe" =>
        /\ Len(calls[r]) <= Len(ExpectedCalls(r))
        /\ \A i \in 1..Len(calls[r]) :
              /\ calls[r][i].op = ExpectedCalls(r)[i]
              /\ i < Len(calls[r]) => calls[r][i].ok
        /\ CallsOf(r, "setMetadata") # {} =>
              /\ CallsOf(r, "get") # {}
              /\ TheCall(r, "setMetadata").arg.fingerprint = TheCall(r, "get").arg
        /\ CallsOf(r, "start") # {} => TheCall(r, "setMetadata").ok

C8_Witness ==
    \E r \in Reqs : /\ Succeeded(r)
                    /\ [i \in 1..Len(calls[r]) |-> calls[r][i].op]
                         = <<"upload", "get", "setMetadata", "start">>
                    /\ TheCall(r, "get").arg > 0

\* the successful setMetadata of handler r, when there is one
WroteMetadata(r) == CallsOf(r, "setMetadata") # {} /\ TheCall(r, "setMetadata").ok
OwnItems(r) == TheCall(r, "setMetadata").arg.items

\* C9: the VM has one metadata slot, written whole by each successful setMetadata.
\* The VM a request starts holds the items of one request's setMetadata, all four
\* keys: its own, or those of another request whose setMetadata succeeded after its
\* own; so two overlapping requests can both be answered 200 while the VM holds the
\* parameters of only one of them (the state C9_Witness).
C9_SingleMetadataSlot ==
    /\ \/ metadata.items = NoItems
       \/ \E q \in Reqs : WroteMetadata(q) /\ metadata.items = OwnItems(q)
    /\ \A r \in Reqs : Succeeded(r) =>
          \/ startedWith[r] = OwnItems(r)
          \/ \E q \in Reqs \ {r} :
                /\ WroteMetadata(q)
                /\ TheCall(q, "setMetadata").arg.fingerprint
                     > TheCall(r, "setMetadata").arg.fingerprint
                /\ startedWith[r] = OwnItems(q)

C9_Witness ==
    \E r, q \in Reqs :
        /\ r # q /\ Succeeded(r) /\ Succeeded(q)
        /\ metadata.items = OwnItems(q)
        /\ startedWith[r] = OwnItems(q)
        /\ startedWith[r]["transcription-id"] # local[r].transcription_id
        /\ startedWith[r]["gcs-input-path"] # local[r].input_source_for_vm

\* handler r uploaded its file and a later compute call of the request raised
FailedAfterUpload(r) ==
    /\ local[r].op = "transcribe" /\ Raised(r)
    /\ calls[r][1].op = "upload" /\ calls[r][1].ok
    /\ LastCall(r).op \in ComputeOps

\* C10: when a submission has uploaded its file and then instances.get, setMetadata or
\* start raises, the answer is a 500 with the exception's text, the uploaded object
\* is still in the bucket under <job-id>/<sanitized-filename>, the upload is the
\* request's only storage call, and a setMetadata that succeeded is not reverted:
\* the request issues no second setMetadata, and its items stay in the VM metadata
\* unless another request overwrote them.
C10_NoCompensation ==
    \A r \in Reqs : FailedAfterUpload(r) =>
        /\ resp[r].status = 500
        /\ resp[r].detail = ExcText[LastCall(r).op]
        /\ local[r].gcs_file_path
             = local[r].transcription_id \o <<"/">> \o secure_filename(local[r].file)
        /\ local[r].gcs_file_path \in DOMAIN bucket
        /\ { i \in 1..Len(calls[r]) : calls[r][i].op \in StorageOps } = {1}
        /\ Cardinality(CallsOf(r, "setMetadata")) <= 1
        /\ (LastCall(r).op = "start" /\ metadata.fingerprint
                 = TheCall(r, "setMetadata").arg.fingerprint + 1)
             => metadata.items = OwnItems(r)

C10_Witness ==
    \E r \in Reqs : /\ FailedAfterUpload(r)
                    /\ LastCall(r).op = "start"
                    /\ metadata.items = OwnItems(r)
                    /\ bucket[local[r].gcs_file_path] = FileBytes(r)

\* the first-level folders of the bucket: what precedes the first "/" of a name
Folders == { SubSeq(n, 1, FirstIndex(n, "/") - 1) : n \in { m \in DOMAIN bucket : Contains(m, "/") } }

\* the objects under a folder whose name ends in .txt
TxtUnder(folder) == { n \in DOMAIN bucket : startswith(n, folder \o <<"/">>) /\ endswith(n, TxtSuffix) }

Listed(r) == local[r].op = "list" /\ pc[r] = "done" /\ resp[r].status = 200

\* C5: for every bucket, GET /transcriptions returns exactly one entry for each
\* first-level folder holding an object whose name ends in .txt, and none for any
\* other folder; an entry's download_url is that of the folder's first .txt object in
\* listing order; the entries are in strictly descending order of folder name.
C5_Listing ==
    \A r \in Reqs : Listed(r) =>
        LET out == resp[r].detail
        IN  /\ \A f \in Folders :
                  Cardinality({ i \in 1..Len(out) : out[i].name = f })
                     = (IF TxtUnder(f) # {} THEN 1 ELSE 0)
            /\ \A i \in 1..Len(out) :
                  /\ out[i].name \in Folders
                  /\ \E n \in TxtUnder(out[i].name) :
                        /\ \A m \in TxtUnder(out[i].name) \ {n} : StrLess(n, m)
                        /\ out[i].download_url = <<"/", "d", "o", "w", "n", "l", "o", "a", "d", "/">> \o n
            /\ \A i, j \in 1..Len(out) : i < j => StrLess(out[j].name, out[i].name)

\* a listing of three folders, one of them with two text files, beside a folder with none
C5_Witness ==
    \E r \in Reqs : /\ Listed(r)
                    /\ Len(resp[r].detail) = 3
                    /\ Cardinality(Folders) = 4
                    /\ \E f \in Folders : Cardinality(TxtUnder(f)) = 2

Downloaded(r) == local[r].op = "download" /\ pc[r] = "done"

\* C6 as claimed: GET /download/<path> answers 404 when no object is stored at the
\* path, and answers an object that exists when the request checks for it with the
\* bytes stored then, always.
C6_AlwaysStoredBytes ==
    \A r \in Reqs : Downloaded(r) =>
        IF local[r].stored = -1
        THEN resp[r].status = 404
        ELSE resp[r].status = 200 /\ resp[r].detail = local[r].stored

\* C6 as amended: the existence check answers 404 exactly when it returns and finds no
\* object; when it finds one, the fetch that returns is answered 200 with the bytes
\* stored at the path when the fetch is made; either call raising is answered 500
\* with the exception's text.
C6_DownloadSteps ==
    [][\A r \in Reqs :
        /\ (pc[r] = "idle" /\ pc'[r] = "fetch") => local'[r].path \in DOMAIN bucket
        /\ (pc[r] # "done" /\ pc'[r] = "done" /\ local'[r].op = "download") =>
              LET c == calls'[r][Len(calls'[r])]
              IN  IF ~c.ok
                  THEN resp'[r].status = 500 /\ resp'[r].detail = ExcText[c.op]
                  ELSE IF c.op = "exists"
                  THEN local'[r].path \notin DOMAIN bucket /\ resp'[r].status = 404
                  ELSE /\ c.op = "download"
                       /\ resp'[r].status = 200
                       /\ resp'[r].detail = bucket[local'[r].path]]_vars

\* an uploaded object is downloaded with the uploader's bytes, and a download of a
\* missing path is answered 404
C6_Witness ==
    \E r, q \in Reqs :
        /\ r # q
        /\ Downloaded(r) /\ resp[r].status = 200
        /\ local[r].path = local[q].gcs_file_path
        /\ resp[r].detail = FileBytes(q)

Accepted(r) == local[r].op = "transcribe" /\ ~(pc[r] = "done" /\ resp[r].status = 400)

\* C7 as claimed: no two accepted submissions derive the same job identifier.
C7_UniqueIds ==
    \A r, q \in Reqs :
        (r # q /\ Accepted(r) /\ Accepted(q))
        => local[r].transcription_id # local[q].transcription_id

\* C7 as amended: two accepted submissions derive the same job identifier exactly when
\* they have the same source base name and were stamped with the same second; and
\* two submissions upload to the same object path exactly when, besides, their
\* sanitized filenames are equal.
C7_IdsDifferUnlessSameNameAndSecond ==
    \A r, q \in Reqs :
        (r < q /\ Accepted(r) /\ Accepted(q)) =>
            /\ (local[r].transcription_id = local[q].transcription_id)
                 <=> /\ local[r].timestamp = local[q].timestamp
                     /\ local[r].source_base_name = local[q].source_base_name
            /\ (local[r].file # NoFile /\ local[q].file # NoFile) =>
                 ((local[r].gcs_file_path = local[q].gcs_file_path)
                    <=> /\ local[r].transcription_id = local[q].transcription_id
                        /\ secure_filename(local[r].file) = secure_filename(local[q].file))

\* two submissions of the same file in the same second: one identifier, one object
\* path, and the bucket holds the bytes of one of them only
C7_Witness ==
    \E r, q \in Reqs :
        /\ r # q /\ Succeeded(r) /\ Succeeded(q)
        /\ local[r].transcription_id = local[q].transcription_id
        /\ local[r].gcs_file_path = local[q].gcs_file_path
        /\ local[r].file # NoFile
        /\ bucket[local[r].gcs_file_path] = FileBytes(q)
====
